---- MODULE Spec2Model ----
(***************************************************************************)
(* Model of server.c, the fork-per-connection HTTP/1.1 file server.        *)
(*                                                                         *)
(* One worker process running handle_client on one accepted connection:    *)
(* the single read, strtok/sscanf parsing of the first line, the dispatch  *)
(* on the method, serve_file (traversal guard, default document, open,     *)
(* fstat, header, chunked read/write loop, close) and send_error /         *)
(* send_response, then close(client_sock) and exit(0).                     *)
(*                                                                         *)
(* C strings are sequences of one-character strings.  The system calls     *)
(* (read, open, fstat, write, close) act on an explicit file system and    *)
(* connection; their failures are nondeterministic inputs.                 *)
(*                                                                         *)
(* Two state machines share the module.  Spec (and SpecMime, FairSpec) is  *)
(* one worker, statement by statement, with the listener's variables at    *)
(* rest.  Server (and FairServer) is main's accept loop, zombie_handler    *)
(* and up to MaxConns workers running concurrently, each one writing the   *)
(* response that the same operators compute for its request, with the      *)
(* single worker's variables at rest.                                      *)
(***************************************************************************)
EXTENDS Integers, Sequences, FiniteSets, TLC

\* ------------------------------------------------------------------------
\* Program constants
\* ------------------------------------------------------------------------
BUFFER_SIZE == 8192
MethodWidth == 15
PathWidth == 255
VersionWidth == 15
BodySize == 512
FullPathSize == 512

\* ------------------------------------------------------------------------
\* Bounds of the model
\* ------------------------------------------------------------------------
\* The largest regular file holds MaxChunks full buffers and one more byte.
MaxChunks == 2
\* Over-long tokens exceed their field width by up to Over characters.
Over == 3
\* The listener accepts at most MaxConns connections.
MaxConns == 2

\* ------------------------------------------------------------------------
\* Characters and C-string helpers
\* ------------------------------------------------------------------------
NUL == "NUL"
CR == "\r"
LF == "\n"
SP == " "
TAB == "\t"

\* isspace(): what the %s conversion and the blank directive of sscanf skip.
WhiteSpace == {SP, TAB, LF, CR, "\f"}

Min(a, b) == IF a < b THEN a ELSE b

Rep(c, n) == [i \in 1..n |-> c]

\* The first position at or after from holding a character in cs (resp. not
\* in cs); Len(s) + 1 when there is none.
Least(S) == CHOOSE i \in S : \A j \in S : i <= j

Find(s, from, cs) ==
    LET hits == {i \in from..Len(s) : s[i] \in cs}
    IN  IF hits = {} THEN Len(s) + 1 ELSE Least(hits)

FindNot(s, from, cs) ==
    LET hits == {i \in from..Len(s) : s[i] \notin cs}
    IN  IF hits = {} THEN Len(s) + 1 ELSE Least(hits)

\* The C string held in a char array: the characters before the first NUL.
CStr(arr) == SubSeq(arr, 1, Find(arr, 1, {NUL}) - 1)

\* snprintf(buf, size, ...): at most size - 1 characters are stored.
Snprintf(size, s) == SubSeq(s, 1, Min(Len(s), size - 1))

\* strstr(haystack, needle) != NULL
strstr(h, n) ==
    \E i \in 1..(Len(h) - Len(n) + 1) : SubSeq(h, i, i + Len(n) - 1) = n

\* strrchr(s, c): index of the last c in s, 0 for NULL.
strrchr(s, c) ==
    IF \E i \in 1..Len(s) : s[i] = c
    THEN CHOOSE i \in 1..Len(s) : s[i] = c /\ \A j \in (i + 1)..Len(s) : s[j] # c
    ELSE 0

\* strtok(str, delims), first call: skip leading delimiters, then the token
\* runs to the next delimiter or to the end of the string.
strtok(str, delims) ==
    LET s == CStr(str)
        b == FindNot(s, 1, delims)
        e == Find(s, b, delims)
    IN  IF b > Len(s) THEN [null |-> TRUE, tok |-> <<>>]
        ELSE [null |-> FALSE, tok |-> SubSeq(s, b, e - 1)]

\* printf("%d"): the decimal digits of a natural number.
Digit(d) == CASE d = 0 -> "0" [] d = 1 -> "1" [] d = 2 -> "2" [] d = 3 -> "3"
              [] d = 4 -> "4" [] d = 5 -> "5" [] d = 6 -> "6" [] d = 7 -> "7"
              [] d = 8 -> "8" [] d = 9 -> "9"

RECURSIVE Dec(_)
Dec(n) == IF n < 10 THEN <<Digit(n)>> ELSE Dec(n \div 10) \o <<Digit(n % 10)>>

\* ------------------------------------------------------------------------
\* parse_http_request
\* ------------------------------------------------------------------------
\* One %<width>s conversion of sscanf starting at position pos: leading white
\* space is skipped, then at most width non-space characters are stored.  The
\* conversion fails when the input ends before a character is stored.
ScanS(s, pos, width) ==
    LET b == FindNot(s, pos, WhiteSpace)
        e == Min(Find(s, b, WhiteSpace), b + width)
    IN  [ok |-> b <= Len(s), tok |-> SubSeq(s, b, e - 1), next |-> e]

\* sscanf(request_line, "%15s %255s %15s", method, path, version): the number
\* of conversions made and the fields they stored.
Sscanf(line) ==
    LET m == ScanS(line, 1, MethodWidth)
        p == ScanS(line, m.next, PathWidth)
        v == ScanS(line, p.next, VersionWidth)
    IN  IF ~m.ok THEN [n |-> -1, method |-> <<>>, path |-> <<>>, version |-> <<>>]
        ELSE IF ~p.ok THEN [n |-> 1, method |-> m.tok, path |-> <<>>, version |-> <<>>]
        ELSE IF ~v.ok THEN [n |-> 2, method |-> m.tok, path |-> p.tok, version |-> <<>>]
        ELSE [n |-> 3, method |-> m.tok, path |-> p.tok, version |-> v.tok]

parse_http_request(line) ==
    LET r == Sscanf(CStr(line))
    IN  [ret |-> IF r.n = 3 THEN 0 ELSE -1,
         req |-> [method |-> r.method, path |-> r.path, version |-> r.version]]

\* ------------------------------------------------------------------------
\* get_mime_type
\* ------------------------------------------------------------------------
\* Mutant of get_mime_type: strchr in place of strrchr, the first '.'.
get_mime_type_strchr(filename) ==
    LET dot == Find(filename, 1, {"."})
        ext == SubSeq(filename, dot, Len(filename))
    IN  IF dot > Len(filename) THEN "text/plain"
        ELSE IF ext = <<".", "h", "t", "m", "l">> THEN "text/html"
        ELSE IF ext = <<".", "c", "s", "s">> THEN "text/css"
        ELSE IF ext = <<".", "j", "s">> THEN "application/javascript"
        ELSE IF ext = <<".", "j", "s", "o", "n">> THEN "application/json"
        ELSE IF ext = <<".", "p", "n", "g">> THEN "image/png"
        ELSE IF ext = <<".", "j", "p", "g">> \/ ext = <<".", "j", "p", "e", "g">>
             THEN "image/jpeg"
        ELSE "text/plain"

\* const char *ext = strrchr(filename, '.'); if (!ext) return "text/plain";
\* then the strcmp chain on ext.
get_mime_type(filename) ==
    LET dot == strrchr(filename, ".")
        ext == SubSeq(filename, dot, Len(filename))
    IN  IF dot = 0 THEN "text/plain"
        ELSE IF ext = <<".", "h", "t", "m", "l">> THEN "text/html"
        ELSE IF ext = <<".", "c", "s", "s">> THEN "text/css"
        ELSE IF ext = <<".", "j", "s">> THEN "application/javascript"
        ELSE IF ext = <<".", "j", "s", "o", "n">> THEN "application/json"
        ELSE IF ext = <<".", "p", "n", "g">> THEN "image/png"
        ELSE IF ext = <<".", "j", "p", "g">> \/ ext = <<".", "j", "p", "e", "g">>
             THEN "image/jpeg"
        ELSE "text/plain"

\* ------------------------------------------------------------------------
\* send_error / send_response
\* ------------------------------------------------------------------------
Forbidden == <<"F", "o", "r", "b", "i", "d", "d", "e", "n">>
NotFound == <<"N", "o", "t", " ", "F", "o", "u", "n", "d">>
NotImplemented ==
    <<"N", "o", "t", " ", "I", "m", "p", "l", "e", "m", "e", "n", "t", "e", "d">>
BadRequest == <<"B", "a", "d", " ", "R", "e", "q", "u", "e", "s", "t">>
OK == <<"O", "K">>

\* snprintf(body, sizeof(body), "<html><body><h1>%d %s</h1><p>%s</p></body></html>",
\*          status_code, message, message)
ErrorBody(status_code, message) ==
    Snprintf(BodySize,
        <<"<", "h", "t", "m", "l", ">", "<", "b", "o", "d", "y", ">", "<", "h", "1", ">">>
        \o Dec(status_code) \o <<SP>> \o message
        \o <<"<", "/", "h", "1", ">", "<", "p", ">">>
        \o message
        \o <<"<", "/", "p", ">", "<", "/", "b", "o", "d", "y", ">",
             "<", "/", "h", "t", "m", "l", ">">>)

\* The header block both send_response and serve_file format: the status
\* line, Content-Type, Content-Length (in decimal), Connection: close and the
\* blank line, written to the connection by one write.
Header(status_code, status_text, content_type, content_length) ==
    [kind |-> "header",
     status |-> Dec(status_code),
     text |-> status_text,
     ctype |-> content_type,
     clen |-> Dec(content_length),
     connection |-> "close"]

\* A write of body bytes (an error page, or one chunk of a file).
Body(bytes) == [kind |-> "body", bytes |-> bytes]

\* ------------------------------------------------------------------------
\* The file system under the document root (the working directory)
\* ------------------------------------------------------------------------
\* kind: "reg" a regular file, "dir" a directory, "noperm" a file the process
\* may not read.  failAt >= 0: reads at or past that offset fail (I/O error).
Reg(size, seed) == [kind |-> "reg", size |-> size, seed |-> seed, failAt |-> -1]
Faulty(size, seed, at) == [kind |-> "reg", size |-> size, seed |-> seed, failAt |-> at]
Dir == [kind |-> "dir", size |-> 4096, seed |-> 0, failAt |-> -1]
NoPerm(size) == [kind |-> "noperm", size |-> size, seed |-> 0, failAt |-> -1]

\* The i-th byte (from 1) of a regular file, and the whole content.
FileByte(obj, i) == (obj.seed + 7 * i) % 256
FileData(obj) == [i \in 1..obj.size |-> FileByte(obj, i)]

\* open(fullpath, O_RDONLY) succeeds: the name exists and may be read.
\* Directories open read-only without error.
CanOpen(files, fullpath) ==
    fullpath \in DOMAIN files /\ files[fullpath].kind # "noperm"

\* read(fd, buffer, count) at file offset off: the number of bytes returned,
\* 0 at end of file, -1 on error (EISDIR for a directory, EIO for a fault).
ReadFile(obj, off, count) ==
    LET limit == IF obj.failAt >= 0 THEN Min(obj.failAt, obj.size) ELSE obj.size
    IN  IF obj.kind = "dir" THEN -1
        ELSE IF off < limit THEN Min(count, limit - off)
        ELSE IF obj.failAt >= 0 /\ obj.failAt <= off THEN -1
        ELSE 0

\* The bytes the read stores in the buffer.
ReadBytes(obj, off, n) == [i \in 1..n |-> FileByte(obj, off + i)]

\* ------------------------------------------------------------------------
\* Inputs: what the client sends, and the files under the root
\* ------------------------------------------------------------------------
GET == <<"G", "E", "T">>
POST == <<"P", "O", "S", "T">>
HTTP11 == <<"H", "T", "T", "P", "/", "1", ".", "1">>
DotDot == <<".", ".">>
Root == <<"/">>
IndexHtml == <<"/", "i", "n", "d", "e", "x", ".", "h", "t", "m", "l">>
CRLF == <<CR, LF>>

\* The longest target that fits the path field: PathWidth characters.
LongName == <<"/">> \o Rep("a", PathWidth - 1)

Methods ==
    {GET, POST, <<"g", "e", "t">>, GET \o <<"X">>}
    \cup {Rep("G", MethodWidth + k) : k \in {1, Over}}

Targets ==
    {Root, IndexHtml,
     <<"/", "a", ".", "c", "s", "s">>,
     <<"/", "s", "u", "b">>,
     <<"/", "n", "o", "f", "i", "l", "e">>,
     <<"/", ".", ".", "/", "x">>,
     <<"/", "a", ".", ".", "b">>,
     LongName,
     LongName \o <<"/">> \o DotDot \o <<"/", "x">>,
     SubSeq(LongName, 1, PathWidth - 1) \o DotDot \o <<"x">>}
    \cup {LongName \o Rep("a", k) : k \in {1, Over}}

Versions == {HTTP11, Rep("V", VersionWidth + Over)}

\* Request lines of three, two and one token, and their variations: extra
\* blanks, tabs, a fourth token, headers after the line, a bare LF, leading
\* line ends, a NUL byte, nothing but blanks or line ends.
Lines3 == {m \o <<SP>> \o t \o <<SP>> \o v : m \in Methods, t \in Targets, v \in Versions}
Lines2 == {m \o <<SP>> \o t : m \in Methods, t \in Targets}
Lines1 == Methods

Plain == GET \o <<SP>> \o Root \o <<SP>> \o HTTP11

Specials ==
    {GET \o <<SP, SP>> \o Root \o <<TAB>> \o HTTP11 \o CRLF,
     <<SP>> \o Plain \o <<SP>> \o <<"x">> \o CRLF,
     Plain \o CRLF \o <<"H", "o", "s", "t", ":", " ", "x">> \o CRLF \o CRLF,
     Plain \o <<LF>>,
     Plain,
     CRLF \o Plain \o CRLF,
     GET \o CRLF \o Plain \o CRLF,
     <<NUL>> \o Plain \o CRLF,
     GET \o <<SP>> \o Root \o <<NUL>> \o <<SP>> \o HTTP11 \o CRLF,
     CRLF, <<LF>>, <<SP>>, <<SP>> \o CRLF, <<NUL>>}

Requests ==
    {<<>>} \cup {l \o CRLF : l \in Lines3 \cup Lines2 \cup Lines1} \cup Specials

\* What ./index.html is: missing, a regular file of a length around the chunk
\* size, a file whose reads fail, a file without read permission, a directory.
IndexObjects ==
    {Reg(n, 1) : n \in {0, 1, BUFFER_SIZE - 1, BUFFER_SIZE, BUFFER_SIZE + 1,
                        MaxChunks * BUFFER_SIZE + 1}}
    \cup {Faulty(BUFFER_SIZE + 1, 2, at) : at \in {0, 3, BUFFER_SIZE}}
    \cup {NoPerm(5), Dir}

Dot(path) == <<".">> \o path

\* The other files of the root, the same in every file system.
FixedFiles ==
    (Dot(<<"/", "a", ".", "c", "s", "s">>) :> Reg(3, 5))
    @@ (Dot(<<"/", "s", "u", "b">>) :> Dir)
    @@ (Dot(<<"/", "a", ".", ".", "b">>) :> Reg(2, 9))
    @@ (Dot(LongName) :> Reg(1, 11))

FileSystems ==
    {FixedFiles} \cup {(Dot(IndexHtml) :> o) @@ FixedFiles : o \in IndexObjects}

PeerAddr == "192.0.2.1"

\* ------------------------------------------------------------------------
\* State
\* ------------------------------------------------------------------------
VARIABLES
    pc,         \* where the worker is in handle_client / serve_file / send_error
    input,      \* the bytes the client has sent on the connection
    fs,         \* the files under the working directory
    buffer,     \* handle_client: char buffer[BUFFER_SIZE], as filled by read
    bytes_read, \* handle_client: the result of the read on the connection
    first_line, \* handle_client: char* first_line, the result of strtok
    req,        \* handle_client: HTTPRequest req, once parsed
    fullpath,   \* serve_file: char fullpath[512]
    fd,         \* serve_file: the file descriptor: [state, obj, off]
    chunk,      \* serve_file: the bytes the last read put in its buffer
    err,        \* send_error: [code, message] of the page being sent
    out,        \* the writes the connection has taken, in order
    broken,     \* a write on the connection has failed
    sock,       \* the worker's descriptor of the connection: "open" / "closed"
    connOps,    \* history: the operations made on the connection's descriptor
    calls,      \* history: serve_file / send_error calls and open() attempts
    log         \* the lines printed on standard output

handlerVars ==
    <<pc, input, fs, buffer, bytes_read, first_line, req, fullpath, fd, chunk, err, out,
      broken, sock, connOps, calls, log>>

\* The listener, its workers and their connections.
VARIABLES
    proc,       \* the processes: 0 the listener, k the worker forked for connection k
    conn,       \* the connections, numbered in the order accept returned them
    accepted,   \* the number of connections accept has returned
    sigchld,    \* SIGCHLD is pending for the listener
    handler,    \* the listener is in zombie_handler: "idle" / "running"
    stdout,     \* what each process has written on its standard output
    tty,        \* standard output is a terminal: line buffered, else fully buffered
    trace       \* history: the calls of accept, fork and handle_client, by process

serverVars == <<proc, conn, accepted, sigchld, handler, stdout, tty, trace>>

vars == <<handlerVars, serverVars>>

Listener == 0
Workers == 1..MaxConns
Pids == {Listener} \cup Workers

\* A process: its position, main's variable client_sock (0: not set), the
\* descriptors it holds (the listening socket, client sockets), the content
\* of its stdio buffer of stdout, and for a worker the result of its read,
\* the data read, the writes it has made, whether one failed, and how it
\* ended ("exit" / "signal").
NoProc ==
    [pc |-> "unborn", client_sock |-> 0, listening |-> FALSE, conns |-> {},
     stdio |-> <<>>, bytes_read |-> 0, data |-> <<>>, written |-> 0,
     broken |-> FALSE, how |-> "none"]

NoConn == [sent |-> <<>>, wire |-> <<>>, worker |-> "none", readers |-> {}]

\* No listener is modelled: the state of these variables under Spec.
ServerAtRest ==
    /\ proc = [p \in Pids |-> NoProc]
    /\ conn = [c \in Workers |-> NoConn]
    /\ accepted = 0
    /\ sigchld = FALSE
    /\ handler = "idle"
    /\ stdout = [p \in Pids |-> <<>>]
    /\ tty = TRUE
    /\ trace = {}

\* The statements of the worker: where pc can be.
PcValues ==
    {"read", "parse", "log", "dispatch", "sf_guard", "sf_open", "sf_header", "sf_read",
     "sf_write", "sf_close", "se_header", "se_body", "close", "exit", "done", "killed"}

NoLine == [null |-> TRUE, tok |-> <<>>]
NoReq == [method |-> <<>>, path |-> <<>>, version |-> <<>>]
NoObj == [kind |-> "none", size |-> 0, seed |-> 0, failAt |-> -1]
NoFd == [state |-> "none", obj |-> NoObj, off |-> 0]
NoErr == [code |-> 0, message |-> <<>>]

\* The worker as fork leaves it, at the first statement of handle_client, on
\* a connection whose client sends one of requests, in one of filesystems.
Start(requests, filesystems) ==
    /\ pc = "read"
    /\ input \in requests
    /\ fs \in filesystems
    /\ buffer = <<>>
    /\ bytes_read = 0
    /\ first_line = NoLine
    /\ req = NoReq
    /\ fullpath = <<>>
    /\ fd = NoFd
    /\ chunk = <<>>
    /\ err = NoErr
    /\ out = <<>>
    /\ broken = FALSE
    /\ sock = "open"
    /\ connOps = <<>>
    /\ calls = <<>>
    /\ log = <<>>
    /\ ServerAtRest

Init == Start(Requests, FileSystems)

\* ------------------------------------------------------------------------
\* System calls on the connection
\* ------------------------------------------------------------------------
\* read(client_sock, buffer, sizeof(buffer) - 1): -1 on error, 0 when the peer
\* closed without sending, else the number of bytes stored.
ReadResults(sent) ==
    {-1} \cup (IF sent = <<>> THEN {0} ELSE {Min(Len(sent), BUFFER_SIZE - 1)})

\* The outcomes of a write on the connection: it is taken whole, it fails
\* with an error return (which no caller looks at), or the peer is gone and
\* SIGPIPE, left at its default action, terminates the process.  After a
\* failure the connection takes no more.
Outcomes(failed) == IF failed THEN {"error", "sigpipe"} ELSE {"ok", "error", "sigpipe"}
WriteOutcomes == Outcomes(broken)

\* Termination of the process: the kernel releases the descriptors still open.
Release(d) == [d EXCEPT !.state = IF @ = "open" THEN "released" ELSE @]

\* write(client_sock, data, ...) with outcome r, continuing at nextpc.
Write(data, r, nextpc) ==
    /\ out' = IF r = "ok" /\ sock = "open" THEN Append(out, data) ELSE out
    /\ broken' = (broken \/ r # "ok")
    /\ IF r = "sigpipe"
       THEN /\ pc' = "killed"
            /\ sock' = "closed"
            /\ fd' = Release(fd)
            /\ connOps' = connOps \o (IF sock = "open" THEN <<"write", "release">>
                                      ELSE <<"write">>)
       ELSE /\ pc' = nextpc
            /\ connOps' = Append(connOps, "write")
            /\ UNCHANGED <<sock, fd>>

\* send_error(client_sock, status_code, message) is entered.
CallSendError(status_code, message) ==
    /\ err' = [code |-> status_code, message |-> message]
    /\ calls' = Append(calls, [fn |-> "send_error", code |-> status_code])
    /\ pc' = "se_header"

\* ------------------------------------------------------------------------
\* handle_client
\* ------------------------------------------------------------------------
\* Mutant of GotData: if (bytes_read >= 0).
GotDataOrEof(n) == n >= 0

\* if (bytes_read > 0)
GotData(n) == n > 0

ReadRequest ==
    /\ pc = "read"
    /\ \E n \in ReadResults(input) :
        /\ bytes_read' = n
        /\ buffer' = IF n > 0 THEN SubSeq(input, 1, n) ELSE <<>>
        /\ pc' = IF GotData(n) THEN "parse" ELSE "close"
    /\ connOps' = Append(connOps, "read")
    /\ UNCHANGED <<input, fs, first_line, req, fullpath, fd, chunk, err, out, broken, sock,
                   calls, log>>
    /\ UNCHANGED serverVars

\* buffer[bytes_read] = '\0'; first_line = strtok(buffer, "\r\n").
FirstLine(buf) == strtok(Append(buf, NUL), {CR, LF})

\* first_line && parse_http_request(first_line, &req) == 0
Parses(buf) ==
    /\ ~FirstLine(buf).null
    /\ parse_http_request(FirstLine(buf).tok).ret = 0

\* Mutant of ParseRequest: the else branch that answers 400 is missing.
ParseRequestNoReply ==
    /\ pc = "parse"
    /\ first_line' = FirstLine(buffer)
    /\ IF Parses(buffer)
       THEN /\ req' = parse_http_request(FirstLine(buffer).tok).req
            /\ pc' = "log"
       ELSE /\ pc' = "close"
            /\ UNCHANGED req
    /\ UNCHANGED <<input, fs, buffer, bytes_read, fullpath, fd, chunk, err, out,
                   broken, sock, connOps, calls, log>>
    /\ UNCHANGED serverVars

ParseRequest ==
    /\ pc = "parse"
    /\ first_line' = FirstLine(buffer)
    /\ IF Parses(buffer)
       THEN /\ req' = parse_http_request(FirstLine(buffer).tok).req
            /\ pc' = "log"
            /\ UNCHANGED <<err, calls>>
       ELSE /\ CallSendError(400, BadRequest)
            /\ UNCHANGED req
    /\ UNCHANGED <<input, fs, buffer, bytes_read, fullpath, fd, chunk, out, broken,
                   sock, connOps, log>>
    /\ UNCHANGED serverVars

\* printf("[%s] %s %s\n", inet_ntoa(...), req.method, req.path)
LogRequest ==
    /\ pc = "log"
    /\ log' = Append(log, [addr |-> PeerAddr, method |-> req.method, path |-> req.path])
    /\ pc' = "dispatch"
    /\ UNCHANGED <<input, fs, buffer, bytes_read, first_line, req, fullpath, fd, chunk, err, out,
                   broken, sock, connOps, calls>>
    /\ UNCHANGED serverVars

\* Mutant of IsGet: strncmp(req.method, "GET", 3) == 0, a prefix match.
IsGetPrefix(method) == SubSeq(method, 1, Min(Len(method), 3)) = GET

\* strcmp(req.method, "GET") == 0
IsGet(method) == method = GET

Dispatch ==
    /\ pc = "dispatch"
    /\ IF IsGet(req.method)
       THEN /\ calls' = Append(calls, [fn |-> "serve_file", code |-> 0])
            /\ pc' = "sf_guard"
            /\ UNCHANGED err
       ELSE CallSendError(501, NotImplemented)
    /\ UNCHANGED <<input, fs, buffer, bytes_read, first_line, req, fullpath, fd, chunk, out,
                   broken, sock, connOps, log>>
    /\ UNCHANGED serverVars

CloseClient ==
    /\ pc = "close"
    /\ sock' = "closed"
    /\ connOps' = Append(connOps, "close")
    /\ pc' = "exit"
    /\ UNCHANGED <<input, fs, buffer, bytes_read, first_line, req, fullpath, fd, chunk, err, out,
                   broken, calls, log>>
    /\ UNCHANGED serverVars

\* exit(0): the process ends and the kernel releases what is still open.
Exit ==
    /\ pc = "exit"
    /\ pc' = "done"
    /\ fd' = Release(fd)
    /\ sock' = "closed"
    /\ connOps' = IF sock = "open" THEN Append(connOps, "release") ELSE connOps
    /\ UNCHANGED <<input, fs, buffer, bytes_read, first_line, req, fullpath, chunk, err, out,
                   broken, calls, log>>
    /\ UNCHANGED serverVars

\* ------------------------------------------------------------------------
\* serve_file
\* ------------------------------------------------------------------------
\* strstr(filepath, "..")
HasTraversal(filepath) == strstr(filepath, DotDot)

\* Mutant of ResolvePath: the default document is not substituted.
ResolvePathNoDefault(filepath) == Snprintf(FullPathSize, <<".">> \o filepath)

\* if (strcmp(filepath, "/") == 0) filepath = "/index.html";
\* snprintf(fullpath, sizeof(fullpath), ".%s", filepath)
ResolvePath(filepath) ==
    Snprintf(FullPathSize, <<".">> \o (IF filepath = Root THEN IndexHtml ELSE filepath))

TraversalGuard ==
    /\ pc = "sf_guard"
    /\ IF HasTraversal(req.path)
       THEN /\ CallSendError(403, Forbidden)
            /\ UNCHANGED fullpath
       ELSE /\ fullpath' = ResolvePath(req.path)
            /\ pc' = "sf_open"
            /\ UNCHANGED <<err, calls>>
    /\ UNCHANGED <<input, fs, buffer, bytes_read, first_line, req, fd, chunk, out, broken, sock,
                   connOps, log>>
    /\ UNCHANGED serverVars

\* Mutant of OpenFile: the result of open is not tested.
OpenFileUnchecked ==
    /\ pc = "sf_open"
    /\ fd' = IF CanOpen(fs, fullpath)
             THEN [state |-> "open", obj |-> fs[fullpath], off |-> 0]
             ELSE fd
    /\ calls' = Append(calls, [fn |-> "open", code |-> IF CanOpen(fs, fullpath) THEN 0 ELSE -1])
    /\ pc' = "sf_header"
    /\ UNCHANGED <<input, fs, buffer, bytes_read, first_line, req, fullpath, chunk, err, out,
                   broken, sock, connOps, log>>
    /\ UNCHANGED serverVars

OpenFile ==
    /\ pc = "sf_open"
    /\ IF CanOpen(fs, fullpath)
       THEN /\ fd' = [state |-> "open", obj |-> fs[fullpath], off |-> 0]
            /\ calls' = Append(calls, [fn |-> "open", code |-> 0])
            /\ pc' = "sf_header"
            /\ UNCHANGED err
       ELSE /\ err' = [code |-> 404, message |-> NotFound]
            /\ calls' = calls \o <<[fn |-> "open", code |-> -1],
                                   [fn |-> "send_error", code |-> 404]>>
            /\ pc' = "se_header"
            /\ UNCHANGED fd
    /\ UNCHANGED <<input, fs, buffer, bytes_read, first_line, req, fullpath, chunk, out, broken,
                   sock, connOps, log>>
    /\ UNCHANGED serverVars

\* fstat(fd, &st); file_size = st.st_size
FileSize(d) == d.obj.size

\* The 200 header block and its write.
FileHeader(path, d) == Header(200, OK, get_mime_type(path), FileSize(d))

SendFileHeader ==
    /\ pc = "sf_header"
    /\ \E r \in WriteOutcomes : Write(FileHeader(fullpath, fd), r, "sf_read")
    /\ UNCHANGED <<input, fs, buffer, bytes_read, first_line, req, fullpath, chunk, err, calls, log>>
    /\ UNCHANGED serverVars

\* Mutant of ReadChunk: a failed read is tried again.
ReadChunkRetry ==
    /\ pc = "sf_read"
    /\ LET n == ReadFile(fd.obj, fd.off, BUFFER_SIZE)
       IN  IF n > 0
           THEN /\ chunk' = ReadBytes(fd.obj, fd.off, n)
                /\ fd' = [fd EXCEPT !.off = @ + n]
                /\ pc' = "sf_write"
           ELSE IF n < 0
           THEN UNCHANGED <<chunk, fd, pc>>
           ELSE /\ chunk' = <<>>
                /\ pc' = "sf_close"
                /\ UNCHANGED fd
    /\ UNCHANGED <<input, fs, buffer, bytes_read, first_line, req, fullpath, err, out, broken,
                   sock, connOps, calls, log>>
    /\ UNCHANGED serverVars

\* while ((bytes_read = read(fd, buffer, sizeof(buffer))) > 0)
ReadChunk ==
    /\ pc = "sf_read"
    /\ LET n == ReadFile(fd.obj, fd.off, BUFFER_SIZE)
       IN  IF n > 0
           THEN /\ chunk' = ReadBytes(fd.obj, fd.off, n)
                /\ fd' = [fd EXCEPT !.off = @ + n]
                /\ pc' = "sf_write"
           ELSE /\ chunk' = <<>>
                /\ pc' = "sf_close"
                /\ UNCHANGED fd
    /\ UNCHANGED <<input, fs, buffer, bytes_read, first_line, req, fullpath, err, out, broken,
                   sock, connOps, calls, log>>
    /\ UNCHANGED serverVars

\* write(client_sock, buffer, bytes_read)
WriteChunk ==
    /\ pc = "sf_write"
    /\ \E r \in WriteOutcomes : Write(Body(chunk), r, "sf_read")
    /\ UNCHANGED <<input, fs, buffer, bytes_read, first_line, req, fullpath, chunk, err, calls, log>>
    /\ UNCHANGED serverVars

\* Mutant of CloseFile: serve_file closes the connection as well.
CloseFileAndSock ==
    /\ pc = "sf_close"
    /\ fd' = [fd EXCEPT !.state = "closed"]
    /\ calls' = Append(calls, [fn |-> "close", code |-> 0])
    /\ sock' = "closed"
    /\ connOps' = Append(connOps, "close")
    /\ pc' = "close"
    /\ UNCHANGED <<input, fs, buffer, bytes_read, first_line, req, fullpath, chunk, err, out,
                   broken, log>>
    /\ UNCHANGED serverVars

\* Mutant of CloseFile: after a failed read serve_file returns at once,
\* without the close.
CloseFileAtEofOnly ==
    /\ pc = "sf_close"
    /\ IF ReadFile(fd.obj, fd.off, BUFFER_SIZE) < 0
       THEN UNCHANGED <<fd, calls>>
       ELSE /\ fd' = [fd EXCEPT !.state = "closed"]
            /\ calls' = Append(calls, [fn |-> "close", code |-> 0])
    /\ pc' = "close"
    /\ UNCHANGED <<input, fs, buffer, bytes_read, first_line, req, fullpath, chunk, err, out,
                   broken, sock, connOps, log>>
    /\ UNCHANGED serverVars

\* close(fd), and serve_file returns.
CloseFile ==
    /\ pc = "sf_close"
    /\ fd' = [fd EXCEPT !.state = "closed"]
    /\ calls' = Append(calls, [fn |-> "close", code |-> 0])
    /\ pc' = "close"
    /\ UNCHANGED <<input, fs, buffer, bytes_read, first_line, req, fullpath, chunk, err, out,
                   broken, sock, connOps, log>>
    /\ UNCHANGED serverVars

\* ------------------------------------------------------------------------
\* send_error and send_response
\* ------------------------------------------------------------------------
\* send_response(client_sock, status_code, message, "text/html", body, strlen(body))
ErrorHeader(e) ==
    Header(e.code, e.message, "text/html", Len(ErrorBody(e.code, e.message)))

\* write(client_sock, header, strlen(header))
SendErrorHeader ==
    /\ pc = "se_header"
    /\ \E r \in WriteOutcomes : Write(ErrorHeader(err), r, "se_body")
    /\ UNCHANGED <<input, fs, buffer, bytes_read, first_line, req, fullpath, chunk, err, calls, log>>
    /\ UNCHANGED serverVars

\* write(client_sock, content, content_length); send_error returns, and so
\* does serve_file when it was the caller.
SendErrorBody ==
    /\ pc = "se_body"
    /\ \E r \in WriteOutcomes :
           Write(Body(ErrorBody(err.code, err.message)), r, "close")
    /\ UNCHANGED <<input, fs, buffer, bytes_read, first_line, req, fullpath, chunk, err, calls, log>>
    /\ UNCHANGED serverVars

\* ------------------------------------------------------------------------
\* Specification
\* ------------------------------------------------------------------------
Next ==
    \/ ReadRequest
    \/ ParseRequest
    \/ LogRequest
    \/ Dispatch
    \/ TraversalGuard
    \/ OpenFile
    \/ SendFileHeader
    \/ ReadChunk
    \/ WriteChunk
    \/ CloseFile
    \/ SendErrorHeader
    \/ SendErrorBody
    \/ CloseClient
    \/ Exit

Spec == Init /\ [][Next]_vars

\* Targets for the choice of the Content-Type: every extension of the table,
\* upper-case and mixed-case spellings, no extension, an unknown one, two
\* extensions, a dot in a directory name, a trailing dot, a target without
\* its leading slash, and names one letter short or long of an extension.
MimeTargets ==
    {Root,
     <<"/", "a", ".", "c", "s", "s">>,
     <<"/", "a", ".", "h", "t", "m", "l">>,
     <<"/", "a", ".", "j", "s">>,
     <<"/", "a", ".", "j", "s", "o", "n">>,
     <<"/", "a", ".", "p", "n", "g">>,
     <<"/", "a", ".", "j", "p", "g">>,
     <<"/", "a", ".", "j", "p", "e", "g">>,
     <<"/", "a", ".", "H", "T", "M", "L">>,
     <<"/", "a", ".", "C", "s", "s">>,
     <<"/", "n", "o", "e", "x", "t">>,
     <<"/", "a", ".", "t", "x", "t">>,
     <<"/", "a", ".", "t", "a", "r", ".", "c", "s", "s">>,
     <<"/", "d", ".", "c", "s", "s", "/", "f">>,
     <<"/", "a", ".">>,
     <<".", "h", "t", "m", "l">>,
     <<"/", "a", ".", "h", "t", "m">>,
     <<"/", "a", ".", "h", "t", "m", "l", "5">>}

\* A root in which each of these targets is a small regular file.
MimeFiles ==
    [f \in {ResolvePath(t) : t \in MimeTargets} |-> Reg(2, Len(f))]

\* The requests for them, and a few others: no data, line ends only, another
\* method, a target with "..", a missing file.
MimeRequests ==
    {GET \o <<SP>> \o t \o <<SP>> \o HTTP11 \o CRLF : t \in MimeTargets}
    \cup {<<>>, CRLF,
          POST \o <<SP>> \o Root \o <<SP>> \o HTTP11 \o CRLF,
          GET \o <<SP>> \o <<"/", ".", ".", "/", "x">> \o <<SP>> \o HTTP11 \o CRLF,
          GET \o <<SP>> \o <<"/", "n", "o", "f", "i", "l", "e">> \o <<SP>> \o HTTP11 \o CRLF}

\* The worker started on one of these requests in that root.
InitMime == Start(MimeRequests, {MimeFiles})
SpecMime == InitMime /\ [][Next]_vars

\* The worker is a process of its own that the scheduler keeps running, and
\* every system call it makes returns: a statement that can be executed is
\* executed.  At each statement one action is enabled, so this is weak
\* fairness of Next; the parsing step, always enabled at its statement, is
\* named by the program counter.
ParseStep == pc = "parse" /\ pc' \in {"log", "se_header"}
OtherSteps ==
    \/ ReadRequest
    \/ LogRequest
    \/ Dispatch
    \/ TraversalGuard
    \/ OpenFile
    \/ SendFileHeader
    \/ ReadChunk
    \/ WriteChunk
    \/ CloseFile
    \/ SendErrorHeader
    \/ SendErrorBody
    \/ CloseClient
    \/ Exit
FairSpec == Spec /\ WF_pc(ParseStep) /\ WF_vars(OtherSteps)

\* ------------------------------------------------------------------------
\* The response of handle_client as a whole
\* ------------------------------------------------------------------------
\* Mutant of ErrorPage: send_response writes the content before the header.
ErrorPageBodyFirst(status_code, message) ==
    <<Body(ErrorBody(status_code, message)),
      ErrorHeader([code |-> status_code, message |-> message])>>

\* send_error: the two writes of send_response, header then content.
ErrorPage(status_code, message) ==
    <<ErrorHeader([code |-> status_code, message |-> message]),
      Body(ErrorBody(status_code, message))>>

\* The writes of the streaming loop from offset off: one per chunk read,
\* until a read returns 0 or fails.
RECURSIVE Chunks(_, _)
Chunks(obj, off) ==
    LET n == ReadFile(obj, off, BUFFER_SIZE)
    IN  IF n > 0 THEN <<Body(ReadBytes(obj, off, n))>> \o Chunks(obj, off + n)
        ELSE <<>>

\* serve_file on a path that opens: the 200 header, then the chunks.
FileResponse(files, path) ==
    <<FileHeader(path, [state |-> "open", obj |-> files[path], off |-> 0])>>
    \o Chunks(files[path], 0)

\* The writes handle_client makes, in order, for the data it has read: the
\* composition of the parse, the dispatch, the guard, the open and the
\* streaming loop that Next executes step by step.
Response(data, files) ==
    IF ~Parses(data) THEN ErrorPage(400, BadRequest)
    ELSE LET r == parse_http_request(FirstLine(data).tok).req
         IN  IF ~IsGet(r.method) THEN ErrorPage(501, NotImplemented)
             ELSE IF HasTraversal(r.path) THEN ErrorPage(403, Forbidden)
             ELSE IF ~CanOpen(files, ResolvePath(r.path)) THEN ErrorPage(404, NotFound)
             ELSE FileResponse(files, ResolvePath(r.path))

\* ------------------------------------------------------------------------
\* main: the accept loop, the workers, zombie_handler
\* ------------------------------------------------------------------------
\* What the clients of the listener send (nothing, line ends only, GET /),
\* and the root it serves.
ServerRequests ==
    {<<>>,
     CRLF,
     Plain \o CRLF}

ServerFiles == (Dot(IndexHtml) :> Reg(3, 1))

\* The three printf of main before the loop, one element per line.
Banner ==
    <<"Mini HTTP Server running on http://localhost:8080",
      "Serving files from: cwd",
      "Press Ctrl+C to stop",
      "">>

\* printf of a line on stdout: a terminal is line buffered, the new line
\* sends the buffer; anything else is fully buffered and the line waits in
\* the process's buffer (far from full here) for a flush.
PrintfBuffer(buf, line) == IF tty THEN <<>> ELSE Append(buf, line)
PrintfOutput(written, buf, line) == IF tty THEN written \o buf \o <<line>> ELSE written

\* The listener as it enters while (1): the handler installed, the socket
\* listening, the banner printed.
InitServer ==
    /\ pc = "done"
    /\ input = <<>>
    /\ fs = ServerFiles
    /\ buffer = <<>>
    /\ bytes_read = 0
    /\ first_line = NoLine
    /\ req = NoReq
    /\ fullpath = <<>>
    /\ fd = NoFd
    /\ chunk = <<>>
    /\ err = NoErr
    /\ out = <<>>
    /\ broken = FALSE
    /\ sock = "closed"
    /\ connOps = <<>>
    /\ calls = <<>>
    /\ log = <<>>
    /\ tty \in BOOLEAN
    /\ proc = [p \in Pids |->
                 IF p = Listener
                 THEN [NoProc EXCEPT !.pc = "accept", !.listening = TRUE,
                                     !.stdio = PrintfBuffer(<<>>, Banner[1])
                                               \o PrintfBuffer(<<>>, Banner[2])
                                               \o PrintfBuffer(<<>>, Banner[3])
                                               \o PrintfBuffer(<<>>, Banner[4])]
                 ELSE NoProc]
    /\ stdout = [p \in Pids |->
                   IF p = Listener
                   THEN PrintfOutput(<<>>, <<>>, Banner[1])
                        \o PrintfOutput(<<>>, <<>>, Banner[2])
                        \o PrintfOutput(<<>>, <<>>, Banner[3])
                        \o PrintfOutput(<<>>, <<>>, Banner[4])
                   ELSE <<>>]
    /\ conn = [c \in Workers |-> NoConn]
    /\ accepted = 0
    /\ sigchld = FALSE
    /\ handler = "idle"
    /\ trace = {}

\* The main flow of the listener is suspended while its handler runs.
Runs(p) == p = Listener => handler = "idle"

\* client_sock = accept(server_sock, ...): a connection when one is waiting
\* and the descriptor is a listening socket; or -1, and then perror and
\* continue.
Accept(p) ==
    /\ proc[p].pc = "accept"
    /\ Runs(p)
    /\ \/ /\ proc[p].listening
          /\ accepted < MaxConns
          /\ \E s \in ServerRequests :
               conn' = [conn EXCEPT ![accepted + 1].sent = s]
          /\ accepted' = accepted + 1
          /\ proc' = [proc EXCEPT ![p].client_sock = accepted + 1,
                                  ![p].conns = @ \cup {accepted + 1},
                                  ![p].pc = "fork"]
          /\ trace' = trace \cup {<<p, "accept">>}
       \/ /\ trace' = trace \cup {<<p, "accept">>, <<p, "accept failed">>}
          /\ UNCHANGED <<proc, conn, accepted>>
    /\ UNCHANGED <<sigchld, handler, stdout, tty>>
    /\ UNCHANGED handlerVars

\* pid = fork(): the child is a copy of the parent, memory, stdio buffer and
\* descriptors, that continues on the branch pid == 0; or fork fails.
Fork(p) ==
    /\ proc[p].pc = "fork"
    /\ Runs(p)
    /\ LET c == proc[p].client_sock
       IN  \/ /\ proc[c].pc = "unborn"
              /\ proc' = [proc EXCEPT ![p].pc = "parent_close",
                                      ![c] = [proc[p] EXCEPT !.pc = "child"]]
              /\ conn' = [conn EXCEPT ![c].worker = "forked"]
           \/ /\ proc' = [proc EXCEPT ![p].pc = "fork_failed"]
              /\ conn' = [conn EXCEPT ![c].worker = "failed"]
    /\ trace' = trace \cup {<<p, "fork">>}
    /\ UNCHANGED <<accepted, sigchld, handler, stdout, tty>>
    /\ UNCHANGED handlerVars

\* pid > 0: close(client_sock), and back to accept.
ParentClose(p) ==
    /\ proc[p].pc = "parent_close"
    /\ Runs(p)
    /\ proc' = [proc EXCEPT ![p].conns = @ \ {proc[p].client_sock}, ![p].pc = "accept"]
    /\ UNCHANGED <<conn, accepted, sigchld, handler, stdout, tty, trace>>
    /\ UNCHANGED handlerVars

\* Mutant of ForkFailed: the branch does not close the client socket.
ForkFailedNoClose(p) ==
    /\ proc[p].pc = "fork_failed"
    /\ Runs(p)
    /\ proc' = [proc EXCEPT ![p].pc = "accept"]
    /\ trace' = trace \cup {<<p, "fork failed">>}
    /\ UNCHANGED <<conn, accepted, sigchld, handler, stdout, tty>>
    /\ UNCHANGED handlerVars

\* pid < 0: perror("fork failed"); close(client_sock), and back to accept.
ForkFailed(p) ==
    /\ proc[p].pc = "fork_failed"
    /\ Runs(p)
    /\ proc' = [proc EXCEPT ![p].conns = @ \ {proc[p].client_sock}, ![p].pc = "accept"]
    /\ trace' = trace \cup {<<p, "fork failed">>}
    /\ UNCHANGED <<conn, accepted, sigchld, handler, stdout, tty>>
    /\ UNCHANGED handlerVars

\* pid == 0: close(server_sock), then handle_client(client_sock, &client_addr)
\* is entered.
ChildCloseListen(p) ==
    /\ proc[p].pc = "child"
    /\ proc' = [proc EXCEPT ![p].listening = FALSE, ![p].pc = "hc_read"]
    /\ trace' = trace \cup {<<p, "handle_client">>}
    /\ UNCHANGED <<conn, accepted, sigchld, handler, stdout, tty>>
    /\ UNCHANGED handlerVars

\* Mutant of ClientSock: the workers are threads of the listener and read
\* the one variable client_sock of main.
ClientSockOfMain(p) == proc[Listener].client_sock

\* The connection a worker works on: its own copy of client_sock, as fork
\* left it.
ClientSock(p) == proc[p].client_sock

\* The log line of a request.
LogLine(r) == [addr |-> PeerAddr, method |-> r.method, path |-> r.path]

\* handle_client up to its first write: the read, and when data came the
\* parse and, for a parsed request, the printf of the log line.
HcRead(p) ==
    /\ proc[p].pc = "hc_read"
    /\ LET c == ClientSock(p)
       IN  \E n \in ReadResults(conn[c].sent) :
             LET data == IF n > 0 THEN SubSeq(conn[c].sent, 1, n) ELSE <<>>
                 logged == GotData(n) /\ Parses(data)
                 line == LogLine(parse_http_request(FirstLine(data).tok).req)
             IN  /\ proc' = [proc EXCEPT
                       ![p].bytes_read = n,
                       ![p].data = data,
                       ![p].stdio = IF logged THEN PrintfBuffer(@, line) ELSE @,
                       ![p].pc = IF GotData(n) THEN "hc_write" ELSE "hc_close"]
                 /\ stdout' = [stdout EXCEPT
                       ![p] = IF logged THEN PrintfOutput(@, proc[p].stdio, line) ELSE @]
                 /\ conn' = [conn EXCEPT ![c].readers = @ \cup {p}]
    /\ UNCHANGED <<accepted, sigchld, handler, tty, trace>>
    /\ UNCHANGED handlerVars

\* The process is terminated by a signal: nothing of its stdio buffer is
\* written, the kernel releases its descriptors, the parent gets SIGCHLD.
Killed(pr) ==
    [pr EXCEPT !.pc = "zombie", !.how = "signal", !.conns = {}, !.listening = FALSE,
               !.stdio = <<>>]

\* The next write of the response on the worker's connection, with its
\* outcome: taken, failed with an error return, or SIGPIPE.
HcWrite(p) ==
    /\ proc[p].pc = "hc_write"
    /\ LET c == ClientSock(p)
           resp == Response(proc[p].data, fs)
           k == proc[p].written + 1
       IN  \E r \in Outcomes(proc[p].broken) :
             /\ conn' = IF r = "ok" /\ c \in proc[p].conns
                        THEN [conn EXCEPT ![c].wire = Append(@, [by |-> p, w |-> resp[k]])]
                        ELSE conn
             /\ IF r = "sigpipe"
                THEN /\ proc' = [proc EXCEPT ![p] = Killed(@)]
                     /\ sigchld' = TRUE
                ELSE /\ proc' = [proc EXCEPT
                           ![p].written = k,
                           ![p].broken = @ \/ r # "ok",
                           ![p].pc = IF k = Len(resp) THEN "hc_close" ELSE "hc_write"]
                     /\ UNCHANGED sigchld
    /\ UNCHANGED <<accepted, handler, stdout, tty, trace>>
    /\ UNCHANGED handlerVars

\* close(client_sock)
HcClose(p) ==
    /\ proc[p].pc = "hc_close"
    /\ proc' = [proc EXCEPT ![p].conns = @ \ {ClientSock(p)}, ![p].pc = "hc_exit"]
    /\ UNCHANGED <<conn, accepted, sigchld, handler, stdout, tty, trace>>
    /\ UNCHANGED handlerVars

\* Mutant of HcExit: handle_client returns to main, where the child goes on
\* with the next iteration of while (1).
HcReturn(p) ==
    /\ proc[p].pc = "hc_exit"
    /\ proc' = [proc EXCEPT ![p].pc = "accept"]
    /\ UNCHANGED <<conn, accepted, sigchld, handler, stdout, tty, trace>>
    /\ UNCHANGED handlerVars

\* exit(0): the stdio buffer is flushed, the kernel releases the
\* descriptors, the parent gets SIGCHLD.
HcExit(p) ==
    /\ proc[p].pc = "hc_exit"
    /\ stdout' = [stdout EXCEPT ![p] = @ \o proc[p].stdio]
    /\ proc' = [proc EXCEPT ![p].pc = "zombie", ![p].how = "exit", ![p].conns = {},
                            ![p].listening = FALSE, ![p].stdio = <<>>]
    /\ sigchld' = TRUE
    /\ UNCHANGED <<conn, accepted, handler, tty, trace>>
    /\ UNCHANGED handlerVars

\* SIGCHLD is delivered to the listener, wherever it is: zombie_handler is
\* entered with the signal blocked; signals raised meanwhile stay pending,
\* as one.
DeliverSigchld ==
    /\ sigchld
    /\ handler = "idle"
    /\ handler' = "running"
    /\ sigchld' = FALSE
    /\ UNCHANGED <<proc, conn, accepted, stdout, tty, trace>>
    /\ UNCHANGED handlerVars

Zombies == {z \in Workers : proc[z].pc = "zombie"}

\* Mutant of WaitpidReap: if in place of while, one waitpid per signal.
WaitpidReapOnce ==
    /\ handler = "running"
    /\ \E z \in Zombies : proc' = [proc EXCEPT ![z].pc = "reaped"]
    /\ handler' = "idle"
    /\ UNCHANGED <<conn, accepted, sigchld, stdout, tty, trace>>
    /\ UNCHANGED handlerVars

\* waitpid(-1, NULL, WNOHANG) > 0: a terminated child is reaped, and the
\* loop goes on.
WaitpidReap ==
    /\ handler = "running"
    /\ \E z \in Zombies : proc' = [proc EXCEPT ![z].pc = "reaped"]
    /\ UNCHANGED <<conn, accepted, sigchld, handler, stdout, tty, trace>>
    /\ UNCHANGED handlerVars

\* waitpid returns 0 (children, none terminated) or -1 (no child): the loop
\* ends and the handler returns.
WaitpidNone ==
    /\ handler = "running"
    /\ Zombies = {}
    /\ handler' = "idle"
    /\ UNCHANGED <<proc, conn, accepted, sigchld, stdout, tty, trace>>
    /\ UNCHANGED handlerVars

NextServer ==
    \/ \E p \in Pids : Accept(p)
    \/ \E p \in Pids : Fork(p)
    \/ \E p \in Pids : ParentClose(p)
    \/ \E p \in Pids : ForkFailed(p)
    \/ \E p \in Pids : ChildCloseListen(p)
    \/ \E p \in Pids : HcRead(p)
    \/ \E p \in Pids : HcWrite(p)
    \/ \E p \in Pids : HcClose(p)
    \/ \E p \in Pids : HcExit(p)
    \/ DeliverSigchld
    \/ WaitpidReap
    \/ WaitpidNone

Server == InitServer /\ [][NextServer]_vars

\* The listener is a running process: a pending SIGCHLD is delivered to it
\* and the statements of its handler are executed.
FairServer ==
    Server /\ WF_vars(DeliverSigchld) /\ WF_vars(WaitpidReap) /\ WF_vars(WaitpidNone)

\* ------------------------------------------------------------------------
\* Vocabulary of the properties
\* ------------------------------------------------------------------------
\* The request line as the protocol defines it, independently of sscanf: its
\* tokens are the maximal runs of characters that are not white space.
TokStarts(l) == {i \in 1..Len(l) : l[i] \notin WhiteSpace /\ (i = 1 \/ l[i - 1] \in WhiteSpace)}
NTok(l) == Cardinality(TokStarts(l))
NthStart(l, k) == CHOOSE i \in TokStarts(l) : Cardinality({j \in TokStarts(l) : j <= i}) = k
Token(l, k) == SubSeq(l, NthStart(l, k), Find(l, NthStart(l, k), WhiteSpace) - 1)
Prefix(s, n) == SubSeq(s, 1, Min(Len(s), n))

\* The first line of the data read, when there is one.
HasLine == ~first_line.null
Line == first_line.tok
Method == Token(Line, 1)
Target == Token(Line, 2)

\* The parser has run, and what it decided.
PastParse == pc \notin {"read", "parse"} /\ bytes_read > 0
Parsed == req # NoReq
SendErrorCodes == [i \in 1..Len(SelectSeq(calls, LAMBDA c : c.fn = "send_error")) |->
                      SelectSeq(calls, LAMBDA c : c.fn = "send_error")[i].code]
Served == \E i \in 1..Len(calls) : calls[i].fn = "serve_file"
OpenAttempted == \E i \in 1..Len(calls) : calls[i].fn = "open"
Terminated == pc \in {"done", "killed"}

\* What the connection received: the header blocks, and the body bytes.
Headers == SelectSeq(out, LAMBDA w : w.kind = "header")
RECURSIVE Concat(_)
Concat(ws) == IF ws = <<>> THEN <<>> ELSE Head(ws).bytes \o Concat(Tail(ws))
BodyBytes == Concat(SelectSeq(out, LAMBDA w : w.kind = "body"))
DigitVal(c) == CHOOSE d \in 0..9 : Digit(d) = c
RECURSIVE Atoi(_)
Atoi(ds) == IF ds = <<>> THEN 0
            ELSE 10 * Atoi(SubSeq(ds, 1, Len(ds) - 1)) + DigitVal(ds[Len(ds)])
StatusOf(h) == Atoi(h.status)

\* The handler ran to its end and every write on the connection was taken.
Complete == pc = "done" /\ ~broken

\* ------------------------------------------------------------------------
\* C1
\* ------------------------------------------------------------------------
\* C1: on a connection whose handler ran to its end with every write taken,
\* the Content-Length of the response header equals the number of body bytes
\* written after it, whatever the resolved path opened (regular file, empty
\* file, directory, file whose reads fail part-way) and for the error pages.
C1_ContentLengthEqualsBody ==
    (Complete /\ Headers # <<>>) => Atoi(Headers[1].clen) = Len(BodyBytes)

\* ------------------------------------------------------------------------
\* C2
\* ------------------------------------------------------------------------
GetWithDotDot ==
    HasLine /\ NTok(Line) >= 3 /\ Method = GET /\ strstr(Target, DotDot)

\* C2: a GET request whose target contains ".." anywhere is answered 403 and
\* nothing else: no open is attempted, no header other than 403 is written,
\* and the handler ends having called send_error(403) exactly once.
C2_DotDotIsForbidden ==
    (PastParse /\ GetWithDotDot) =>
        /\ ~OpenAttempted
        /\ \A i \in 1..Len(Headers) : StatusOf(Headers[i]) = 403
        /\ \A i \in 1..Len(SendErrorCodes) : SendErrorCodes[i] = 403
        /\ Terminated => SendErrorCodes = <<403>>

\* ------------------------------------------------------------------------
\* C3
\* ------------------------------------------------------------------------
\* C3: the parser succeeds exactly when the request line holds at least three
\* tokens; a line of fewer tokens, of any lengths, fails and is answered 400.
C3_ParsesIffThreeTokens ==
    PastParse =>
        IF HasLine /\ NTok(Line) >= 3
        THEN Parsed /\ SendErrorCodes # <<400>>
        ELSE ~Parsed /\ SendErrorCodes = <<400>>

\* ------------------------------------------------------------------------
\* C4
\* ------------------------------------------------------------------------
\* C4: for a line "M P V" of three tokens the parser yields method, path and
\* version as M, P and V cut at 15, 255 and 15 characters: no field holds
\* characters of another token.
C4_FieldsAreCutTokens ==
    (PastParse /\ HasLine /\ NTok(Line) = 3) =>
        /\ Parsed
        /\ req.method = Prefix(Token(Line, 1), MethodWidth)
        /\ req.path = Prefix(Token(Line, 2), PathWidth)
        /\ req.version = Prefix(Token(Line, 3), VersionWidth)

\* ------------------------------------------------------------------------
\* C5
\* ------------------------------------------------------------------------
\* C5: after a successful parse serve_file is called exactly when the method
\* token is "GET"; any other method token is answered 501 and nothing else:
\* serve_file is not called and no file is opened.
C5_ServeFileIffGet ==
    (Parsed /\ pc \notin {"log", "dispatch"}) =>
        IF Method = GET
        THEN Served /\ calls[1].fn = "serve_file"
        ELSE /\ ~Served
             /\ ~OpenAttempted
             /\ fd.state = "none"
             /\ SendErrorCodes = <<501>>
             /\ Len(Headers) <= 1
             /\ \A i \in 1..Len(Headers) : StatusOf(Headers[i]) = 501
             /\ Complete => Len(Headers) = 1 /\ BodyBytes = ErrorBody(501, NotImplemented)

\* A request whose method only starts with GET has been answered 501.
C5_Witness ==
    /\ Complete
    /\ Parsed
    /\ Method = GET \o <<"X">>
    /\ SendErrorCodes = <<501>>
    /\ StatusOf(Headers[1]) = 501

\* ------------------------------------------------------------------------
\* C6
\* ------------------------------------------------------------------------
\* C6: when data was read but no first line is isolated or the parser fails,
\* send_error(400) is the one call made: one 400 page is sent, no file is
\* opened, no log line is printed, and the connection is closed.
C6_UnparsedIs400 ==
    (PastParse /\ ~Parses(buffer)) =>
        /\ calls = <<[fn |-> "send_error", code |-> 400]>>
        /\ log = <<>>
        /\ fd.state = "none"
        /\ Len(Headers) <= 1
        /\ \A i \in 1..Len(Headers) : StatusOf(Headers[i]) = 400
        /\ Complete => /\ Len(Headers) = 1
                       /\ BodyBytes = ErrorBody(400, BadRequest)
                       /\ connOps = <<"read", "write", "write", "close">>
        /\ Terminated => sock = "closed"

\* Data made of line ends only was read: no first line, and 400 was sent.
C6_Witness ==
    /\ Complete
    /\ bytes_read > 0
    /\ first_line.null
    /\ Len(Headers) = 1
    /\ StatusOf(Headers[1]) = 400

\* ------------------------------------------------------------------------
\* C7
\* ------------------------------------------------------------------------
\* C7: when the read returns zero or a negative value the handler goes
\* straight to the close: nothing is written, parsed, logged or opened.
C7_NoDataNoResponse ==
    (pc # "read" /\ bytes_read <= 0) =>
        /\ pc \in {"close", "exit", "done"}
        /\ out = <<>>
        /\ \A i \in 1..Len(connOps) : connOps[i] # "write"
        /\ calls = <<>>
        /\ log = <<>>
        /\ req = NoReq
        /\ fd.state = "none"
        /\ pc = "done" => connOps = <<"read", "close">> /\ sock = "closed"

\* The peer closed without sending and the worker has exited.
C7_Witness == pc = "done" /\ bytes_read = 0 /\ connOps = <<"read", "close">>

\* ------------------------------------------------------------------------
\* C8
\* ------------------------------------------------------------------------
Closings == SelectSeq(connOps, LAMBDA o : o \in {"close", "release"})

\* C8: the worker's descriptor of the connection is closed exactly once and
\* nothing is done on it afterwards.  A worker that reaches exit(0) has
\* closed it by the close of handle_client, its last operation on it; a
\* worker terminated by SIGPIPE in a write has made no close, and the kernel
\* released the descriptor once, with the process.
C8_ClosedExactlyOnce ==
    /\ Len(Closings) <= 1
    /\ \A i \in 1..Len(connOps) :
           connOps[i] \in {"close", "release"} => i = Len(connOps)
    /\ (sock = "closed") <=> (Len(Closings) = 1)
    /\ pc \in {"exit", "done"} => sock = "closed" /\ connOps[Len(connOps)] = "close"
    /\ pc = "killed" => sock = "closed" /\ connOps[Len(connOps)] = "release"

\* A write failed in the middle of streaming a file, and the worker still
\* went on to close the file and the connection.
C8_Witness ==
    /\ pc = "done"
    /\ broken
    /\ fd.state = "closed"
    /\ Len(out) >= 2
    /\ connOps[Len(connOps)] = "close"

\* ------------------------------------------------------------------------
\* C9
\* ------------------------------------------------------------------------
GetRoot == HasLine /\ NTok(Line) >= 3 /\ Method = GET /\ Target = Root
Index == fs[Dot(IndexHtml)]
IndexReadable ==
    /\ Dot(IndexHtml) \in DOMAIN fs
    /\ Index.kind = "reg"
    /\ Index.failAt = -1
BodyWrites == SelectSeq(out, LAMBDA w : w.kind = "body")

\* C9: GET / with a readable index.html is answered 200 with the file's
\* length as Content-Length; the body is written in chunks of at most
\* BUFFER_SIZE bytes that are, in order, the file's bytes: always a prefix of
\* the file, and the whole file once the handler has ended with every write
\* taken.
C9_RootServesIndex ==
    (PastParse /\ GetRoot /\ IndexReadable) =>
        /\ SendErrorCodes = <<>>
        /\ Len(Headers) <= 1
        /\ \A i \in 1..Len(Headers) :
               /\ StatusOf(Headers[i]) = 200
               /\ Headers[i].text = OK
               /\ Atoi(Headers[i].clen) = Index.size
        /\ \A i \in 1..Len(BodyWrites) :
               Len(BodyWrites[i].bytes) \in 1..BUFFER_SIZE
        /\ BodyBytes = SubSeq(FileData(Index), 1, Len(BodyBytes))
        /\ out # <<>> => out[1].kind = "header"
        /\ Complete => Len(Headers) = 1 /\ BodyBytes = FileData(Index)

\* An index.html longer than one chunk has been served whole.
C9_Witness ==
    /\ Complete
    /\ GetRoot
    /\ IndexReadable
    /\ Index.size > BUFFER_SIZE
    /\ Len(BodyWrites) >= 2
    /\ BodyBytes = FileData(Index)

\* ------------------------------------------------------------------------
\* C10
\* ------------------------------------------------------------------------
GetWithoutDotDot ==
    HasLine /\ NTok(Line) >= 3 /\ Method = GET /\ ~strstr(Target, DotDot)
PastOpen ==
    PastParse /\ pc \notin {"log", "dispatch", "sf_guard", "sf_open"}

\* C10: a GET request without ".." whose resolved path is missing or cannot
\* be opened is answered 404, text/html, with a body holding "404" and
\* "Not Found"; no 200 header and no file byte is written for it; and a 200
\* header is only ever written after a successful open.
C10_MissingIs404 ==
    /\ (PastOpen /\ GetWithoutDotDot /\ ~CanOpen(fs, fullpath)) =>
        /\ SendErrorCodes = <<404>>
        /\ fd.state = "none"
        /\ Len(Headers) <= 1
        /\ \A i \in 1..Len(Headers) :
               StatusOf(Headers[i]) = 404 /\ Headers[i].ctype = "text/html"
        /\ BodyBytes = SubSeq(ErrorBody(404, NotFound), 1, Len(BodyBytes))
        /\ Complete => /\ Len(Headers) = 1
                       /\ out[1].kind = "header"
                       /\ strstr(BodyBytes, <<"4", "0", "4">>)
                       /\ strstr(BodyBytes, NotFound)
    /\ (\E i \in 1..Len(Headers) : StatusOf(Headers[i]) = 200) =>
        /\ fd.state # "none"
        /\ \E i \in 1..Len(calls) : calls[i] = [fn |-> "open", code |-> 0]

\* A missing file was asked for and the 404 page was sent whole.
C10_Witness ==
    /\ Complete
    /\ GetWithoutDotDot
    /\ fullpath # <<>>
    /\ fullpath \notin DOMAIN fs
    /\ StatusOf(Headers[1]) = 404
    /\ strstr(BodyBytes, NotFound)

\* ------------------------------------------------------------------------
\* C11
\* ------------------------------------------------------------------------
\* The first line of the client's input as the protocol defines it: the bytes
\* before the first CR or LF.
RawFirstLine(buf) == SubSeq(buf, 1, Find(buf, 1, {CR, LF}) - 1)

\* C11: data whose first line (the bytes before the first CR or LF) is empty
\* is answered 400 and nothing else, even when a later line is a well-formed
\* request line: no request is parsed or logged and no file is served.
C11_EmptyFirstLineIs400 ==
    (PastParse /\ RawFirstLine(buffer) = <<>>) =>
        /\ ~Parsed
        /\ SendErrorCodes = <<400>>
        /\ ~Served
        /\ log = <<>>

\* ------------------------------------------------------------------------
\* C15
\* ------------------------------------------------------------------------
FileOps == SelectSeq(calls, LAMBDA c : c.fn \in {"open", "close"})
ReturnedFromServeFile == Served /\ pc \in {"close", "exit", "done"}

\* C15: once serve_file has returned the worker holds no open file: the
\* handle is closed when the open succeeded (also when a read failed) and
\* none exists on the 403 and 404 paths; a close is made only on a handle
\* the open returned, and at most once.
C15_FileHandleReleased ==
    /\ ReturnedFromServeFile => fd.state \in {"none", "closed"}
    /\ pc \in {"se_header", "se_body"} => fd.state = "none"
    /\ FileOps \in {<<>>,
                     <<[fn |-> "open", code |-> -1]>>,
                     <<[fn |-> "open", code |-> 0]>>,
                     <<[fn |-> "open", code |-> 0], [fn |-> "close", code |-> 0]>>}
    /\ (fd.state = "closed") <=> (Len(FileOps) = 2)
    /\ (fd.state = "none") <=> (\A i \in 1..Len(FileOps) : FileOps[i].code = -1)

\* A read failed in the middle of a file, and serve_file returned with the
\* file closed.
C15_Witness ==
    /\ pc = "done"
    /\ Served
    /\ fd.state = "closed"
    /\ fd.obj.failAt > 0
    /\ fd.off = fd.obj.failAt
    /\ Len(FileOps) = 2

\* ------------------------------------------------------------------------
\* C18
\* ------------------------------------------------------------------------
ReadsOfConnection == SelectSeq(connOps, LAMBDA o : o = "read")
Opens == SelectSeq(calls, LAMBDA c : c.fn = "open")

\* C18: when every read and write returns, the handler comes to its end with
\* the connection closed, whatever the request and the file: the streaming
\* loop ends at the end of the file or at the first failed read; and no step
\* is made twice: one read of the request, at most one open, at most one
\* error page.
C18_ReachesClosed ==
    /\ <>(Terminated /\ sock = "closed" /\ fd.state # "open")
    /\ [](/\ Len(ReadsOfConnection) <= 1
          /\ Len(Opens) <= 1
          /\ Len(SendErrorCodes) <= 1
          /\ fd.off <= fd.obj.size)

\* A file of more than MaxChunks chunks was streamed to its end and the
\* worker exited.
C18_Witness ==
    /\ Complete
    /\ sock = "closed"
    /\ fd.state = "closed"
    /\ fd.off = fd.obj.size
    /\ Len(BodyWrites) = MaxChunks + 1

\* ------------------------------------------------------------------------
\* C12
\* ------------------------------------------------------------------------
\* The table of the extensions, as the protocol gives it.
MimeTable ==
    (<<"h", "t", "m", "l">> :> "text/html")
    @@ (<<"c", "s", "s">> :> "text/css")
    @@ (<<"j", "s">> :> "application/javascript")
    @@ (<<"j", "s", "o", "n">> :> "application/json")
    @@ (<<"p", "n", "g">> :> "image/png")
    @@ (<<"j", "p", "g">> :> "image/jpeg")
    @@ (<<"j", "p", "e", "g">> :> "image/jpeg")

Dots(p) == {i \in 1..Len(p) : p[i] = "."}
LastDot(p) == CHOOSE i \in Dots(p) : \A j \in Dots(p) : j <= i
Extension(p) == SubSeq(p, LastDot(p) + 1, Len(p))
MimeOf(p) ==
    IF Dots(p) # {} /\ Extension(p) \in DOMAIN MimeTable
    THEN MimeTable[Extension(p)]
    ELSE "text/plain"

\* C12: get_mime_type returns, for every path, the type the table gives for
\* the characters after the last '.', compared as they are written, and
\* text/plain when the table has none or the path has no '.'; the
\* Content-Type of every 200 header is that type for the resolved path:
\* text/html for "/", text/plain for a.HTML and for noext.
C12_ContentTypeFromExtension ==
    /\ \A t \in MimeTargets : get_mime_type(ResolvePath(t)) = MimeOf(ResolvePath(t))
    /\ get_mime_type(ResolvePath(Root)) = "text/html"
    /\ get_mime_type(<<".", "/", "a", ".", "H", "T", "M", "L">>) = "text/plain"
    /\ get_mime_type(<<".", "/", "n", "o", "e", "x", "t">>) = "text/plain"
    /\ get_mime_type(<<"a", ".", "j", "p", "e", "g">>) = "image/jpeg"
    /\ \A i \in 1..Len(Headers) :
           StatusOf(Headers[i]) = 200 =>
               /\ fullpath = ResolvePath(Target)
               /\ Headers[i].ctype = MimeOf(fullpath)

\* A file whose extension is spelled in upper case was served as text/plain.
C12_Witness ==
    /\ Complete
    /\ fullpath = <<".", "/", "a", ".", "H", "T", "M", "L">>
    /\ Len(Headers) = 1
    /\ StatusOf(Headers[1]) = 200
    /\ Headers[1].ctype = "text/plain"
    /\ Len(BodyBytes) = 2

\* ------------------------------------------------------------------------
\* Vocabulary of the properties of the listener and its workers
\* ------------------------------------------------------------------------
Accepted == 1..accepted
Born(k) == proc[k].pc # "unborn"
Ended(k) == proc[k].pc \in {"zombie", "reaped"}
InHandleClient(k) == proc[k].pc \in {"hc_read", "hc_write", "hc_close", "hc_exit"}
HasRead(k) == proc[k].pc \in {"hc_write", "hc_close", "hc_exit", "zombie", "reaped"}
ReadData(k) == HasRead(k) /\ proc[k].bytes_read > 0

\* What connection c has received, and from whom.
Wire(c) == [i \in 1..Len(conn[c].wire) |-> conn[c].wire[i].w]
Writers(c) == {conn[c].wire[i].by : i \in 1..Len(conn[c].wire)}
WireHeaders(c) == SelectSeq(Wire(c), LAMBDA w : w.kind = "header")
IsPrefix(s, t) == Len(s) <= Len(t) /\ s = SubSeq(t, 1, Len(s))

\* The processes that hold a descriptor of connection c.
Holders(c) == {p \in Pids : c \in proc[p].conns}

\* The listener is in its loop, its socket listening.
ListenerRuns ==
    /\ proc[Listener].pc \in {"accept", "fork", "parent_close", "fork_failed"}
    /\ proc[Listener].listening

\* Under Spec, the link between the two state machines: the writes the
\* single worker makes step by step are the beginning of Response for the
\* data it read, and the whole of it when it ends with every write taken.
HandlerWritesResponse ==
    (pc # "read" /\ bytes_read > 0) =>
        /\ IsPrefix(out, Response(buffer, fs))
        /\ Complete => out = Response(buffer, fs)

\* ------------------------------------------------------------------------
\* C13
\* ------------------------------------------------------------------------
StatusCodes == {200, 400, 403, 404, 501}

\* C13: what a connection receives is one response at most, written by its
\* own worker alone: first a header block (a status in {200, 400, 403, 404,
\* 501}, Content-Type, Content-Length, Connection: close), after it body
\* writes only, never a second header; a worker that read data and made all
\* its writes with success has written exactly one header, a worker that
\* read none has written nothing.
C13_OneResponsePerConnection ==
    \A c \in Accepted :
        /\ Writers(c) \subseteq {c}
        /\ Len(WireHeaders(c)) <= 1
        /\ \A i \in 1..Len(Wire(c)) :
               IF i = 1
               THEN /\ Wire(c)[i].kind = "header"
                    /\ StatusOf(Wire(c)[i]) \in StatusCodes
                    /\ Wire(c)[i].connection = "close"
                    /\ Wire(c)[i].ctype \in {"text/html", "text/plain"}
                    /\ Atoi(Wire(c)[i].clen) >= 0
               ELSE Wire(c)[i].kind = "body"
        /\ (Wire(c) # <<>>) => ReadData(c)
        /\ (ReadData(c) /\ proc[c].how = "exit" /\ ~proc[c].broken) =>
               Len(WireHeaders(c)) = 1

\* Two workers were writing at the same time, and each connection got its
\* header and then its body: a 400 page and index.html.
C13_Witness ==
    /\ accepted = 2
    /\ proc[1].pc = "hc_write" /\ proc[1].written = 1
    /\ proc[2].how = "exit" /\ ~proc[2].broken
    /\ Len(Wire(1)) = 1 /\ Len(Wire(2)) = 2
    /\ {StatusOf(Wire(1)[1]), StatusOf(Wire(2)[1])} = {200, 400}

\* ------------------------------------------------------------------------
\* C14
\* ------------------------------------------------------------------------
\* C14: in every interleaving, what a connection has received is the
\* beginning of the response to its own request in the file system, written
\* and read by its own worker only, and the whole of it once that worker has
\* exited with every write taken; whatever happens to a worker (failed read,
\* failed write, SIGPIPE) the listener stays in its loop, its socket
\* listening.
C14_WorkersIsolated ==
    /\ \A c \in Accepted :
           /\ conn[c].readers \subseteq {c}
           /\ Writers(c) \subseteq {c}
           /\ IsPrefix(Wire(c), Response(conn[c].sent, fs))
           /\ ReadData(c) => proc[c].data = conn[c].sent
           /\ (ReadData(c) /\ proc[c].how = "exit" /\ ~proc[c].broken) =>
                  Wire(c) = Response(conn[c].sent, fs)
    /\ ListenerRuns
    /\ fs = ServerFiles

\* The first worker was killed by SIGPIPE after its header; the second,
\* which ran after it, served its request whole, and the listener is back at
\* accept.
C14_Witness ==
    /\ accepted = 2
    /\ proc[1].how = "signal" /\ Len(Wire(1)) = 1
    /\ proc[2].how = "exit" /\ ~proc[2].broken
    /\ conn[2].sent = Plain \o CRLF
    /\ Wire(2) = Response(Plain \o CRLF, fs)
    /\ proc[Listener].pc = "accept"

\* ------------------------------------------------------------------------
\* C16
\* ------------------------------------------------------------------------
\* C16: a worker that has terminated (exit or signal) is eventually reaped
\* by the listener's handler, also when the SIGCHLD of several workers was
\* delivered as one.
C16_ZombiesAreReaped ==
    \A k \in Workers : (proc[k].pc = "zombie") ~> (proc[k].pc = "reaped")

\* One run of the handler, for one delivery of SIGCHLD, has reaped a worker
\* and finds a second one terminated, with no signal pending for it.
C16_Witness ==
    /\ handler = "running"
    /\ ~sigchld
    /\ \E j, k \in Workers : proc[j].pc = "reaped" /\ proc[k].pc = "zombie"

\* ------------------------------------------------------------------------
\* C17
\* ------------------------------------------------------------------------
\* The log line of the request worker k has read, when it parses.
ParsedRequest(k) == ReadData(k) /\ Parses(proc[k].data)
ExpectedOutput(k) ==
    IF ParsedRequest(k)
    THEN <<LogLine(parse_http_request(FirstLine(proc[k].data).tok).req)>>
    ELSE <<>>

\* C17: the standard output of a worker is the one log line of its request
\* when the request parsed and nothing otherwise: a worker that has ended
\* has written exactly that, and never anything else before.
C17_OneLogLinePerRequest ==
    \A k \in Workers :
        /\ IsPrefix(stdout[k], ExpectedOutput(k))
        /\ Ended(k) => stdout[k] = ExpectedOutput(k)

\* ------------------------------------------------------------------------
\* C19
\* ------------------------------------------------------------------------
\* C19: the listener holds a client socket only between accept and the close
\* of the branch fork took, one at most, and none when it is back at accept;
\* a connection whose fork failed is then held by nobody and has received
\* nothing; a worker in handle_client does not hold the listening socket;
\* and the listener stays in its loop after a failed accept or fork.
C19_ListenerHoldsNoClient ==
    /\ proc[Listener].pc = "accept" => proc[Listener].conns = {}
    /\ proc[Listener].pc # "accept" =>
           proc[Listener].conns = {proc[Listener].client_sock}
    /\ \A c \in Accepted :
           (conn[c].worker = "failed" /\ Listener \notin Holders(c)) =>
               /\ Holders(c) = {}
               /\ conn[c].wire = <<>>
               /\ conn[c].readers = {}
               /\ ~Born(c)
    /\ \A k \in Workers :
           /\ (InHandleClient(k) \/ Ended(k)) => ~proc[k].listening
           /\ proc[k].conns \subseteq {k}
    /\ ListenerRuns

\* An accept and a fork have failed, a worker has served the other
\* connection, and the listener is at accept holding its listening socket
\* only.
C19_Witness ==
    /\ accepted = 2
    /\ {<<Listener, "accept failed">>, <<Listener, "fork failed">>} \subseteq trace
    /\ \E c, d \in Accepted : conn[c].worker = "failed" /\ Ended(d)
    /\ proc[Listener].pc = "accept"
    /\ proc[Listener].conns = {}
    /\ proc[Listener].listening

\* ------------------------------------------------------------------------
\* C20
\* ------------------------------------------------------------------------
\* C20: a worker is never at a statement of the accept loop: from
\* handle_client it only goes to its end, by exit or by a signal; accept and
\* fork are called by the listener alone; and a worker reads, writes and
\* holds the one connection it was forked for.
C20_WorkerNeverAccepts ==
    /\ \A k \in Workers :
           /\ proc[k].pc \in {"unborn", "child", "hc_read", "hc_write", "hc_close",
                              "hc_exit", "zombie", "reaped"}
           /\ Born(k) => proc[k].client_sock = k
           /\ Ended(k) <=> proc[k].how \in {"exit", "signal"}
           /\ \A c \in Accepted : k \in conn[c].readers \cup Writers(c) => c = k
    /\ \A e \in trace : e[2] \in {"accept", "accept failed", "fork", "fork failed"}
                            => e[1] = Listener
    /\ \A e \in trace : e[2] = "handle_client" => e[1] \in Workers

\* One worker has exited after a connection without data, another after an
\* error page, and the listener alone has called accept and fork.
C20_Witness ==
    /\ accepted = 2
    /\ \E j, k \in Workers :
           /\ proc[j].how = "exit" /\ proc[j].bytes_read = 0
           /\ proc[k].how = "exit" /\ proc[k].bytes_read > 0
           /\ Len(Wire(k)) = 2 /\ StatusOf(Wire(k)[1]) = 400
    /\ {<<Listener, "accept">>, <<Listener, "fork">>, <<1, "handle_client">>,
        <<2, "handle_client">>} = trace

====
